---------------------------- MODULE Spec2Model ----------------------------
(***************************************************************************)
(* Model of the D-Money payment shim (server.js): the canonical request    *)
(* string (createRawRequest), the private key resolution (loadPrivateKey), *)
(* the RSA-PSS signing routine (generateSignature) and the three gateway   *)
(* handlers (/auth, /checkout-url, /query-order/:orderId).                 *)
(*                                                                         *)
(* A JavaScript string is a sequence of UTF-16 code units (naturals).      *)
(* A JavaScript value is a record [t, s, n]: t is the type tag, s the      *)
(* string content (t = "string"), n the integer (t = "number").            *)
(* An object is the sequence of its [key, value] properties in creation    *)
(* order, with distinct keys.                                              *)
(***************************************************************************)
EXTENDS Integers, Sequences, FiniteSets, TLC

VARIABLES
    params,     \* SpecCanon: the object handed to createRawRequest
    raw,        \* SpecCanon: the string returned by the last call
    called,     \* SpecCanon: whether createRawRequest has been called on params
    env,        \* process.env: PRIVATE_KEY and PRIVATE_KEY_PATH
    keyFile,    \* the content of the file at KeyPath, or NoFile
    last,       \* SpecSign: the latest call of generateSignature, or NoCall
    prev,       \* SpecSign: the key and file reads of the call before it, or NoCall
    fresh,      \* SpecSign: env and keyFile are as the latest call found them
    req         \* SpecHttp: the request being handled, or the idle record

canonVars == <<params, raw, called>>

signVars == <<last, prev, fresh>>

processVars == <<env, keyFile>>

vars == <<params, raw, called, env, keyFile, last, prev, fresh, req>>

-----------------------------------------------------------------------------
(* JavaScript values *)

Null == [t |-> "null", s |-> <<>>, n |-> 0]

Undefined == [t |-> "undefined", s |-> <<>>, n |-> 0]

JsString(s) == [t |-> "string", s |-> s, n |-> 0]

JsNumber(n) == [t |-> "number", s |-> <<>>, n |-> n]

(* Code units the model names. *)
AMP == 38

EQ == 61

MINUS == 45

DIGIT0 == 48

RECURSIVE digits(_)
(* Number::toString for a non-negative integer: its decimal digits. *)
digits(n) ==
    IF n < 10 THEN <<DIGIT0 + n>>
    ELSE Append(digits(n \div 10), DIGIT0 + (n % 10))

(* String(value), for the scalar values a parameter mapping holds. *)
String(value) ==
    CASE value.t = "string" -> value.s
      [] value.t = "number" ->
            IF value.n < 0 THEN <<MINUS>> \o digits(0 - value.n) ELSE digits(value.n)
      [] value.t = "null" -> <<110, 117, 108, 108>>
      [] value.t = "undefined" -> <<117, 110, 100, 101, 102, 105, 110, 101, 100>>

(* WhiteSpace and LineTerminator code units, which String.prototype.trim strips. *)
IsWhiteSpace(c) ==
    c \in {9, 10, 11, 12, 13, 32, 160, 5760, 8232, 8233, 8239, 8287, 12288, 65279}
    \/ c \in 8192..8202

RECURSIVE trimStart(_)
trimStart(s) ==
    IF s /= <<>> /\ IsWhiteSpace(Head(s)) THEN trimStart(Tail(s)) ELSE s

RECURSIVE trimEnd(_)
trimEnd(s) ==
    IF s /= <<>> /\ IsWhiteSpace(s[Len(s)])
    THEN trimEnd(SubSeq(s, 1, Len(s) - 1))
    ELSE s

(* String.prototype.trim *)
trim(s) == trimEnd(trimStart(s))

-----------------------------------------------------------------------------
(* Objects: property order, and the default Array.prototype.sort *)

RECURSIVE StrLess(_, _)
(* x < y on strings: lexicographic on code units, a proper prefix first. *)
StrLess(x, y) ==
    IF y = <<>> THEN FALSE
    ELSE IF x = <<>> THEN TRUE
    ELSE IF Head(x) /= Head(y) THEN Head(x) < Head(y)
    ELSE StrLess(Tail(x), Tail(y))

MaxArrayIndexDigits == <<52, 50, 57, 52, 57, 54, 55, 50, 57, 53>>

(* A property key that is a canonical array index (an integer below 2^32 - 1): *)
(* such keys are enumerated first, in ascending numeric order.                 *)
IsArrayIndex(k) ==
    /\ Len(k) \in 1..10
    /\ \A i \in 1..Len(k) : k[i] \in 48..57
    /\ (Len(k) = 1 \/ k[1] /= DIGIT0)
    /\ (Len(k) = 10 => StrLess(k, MaxArrayIndexDigits))

(* Numeric order of two canonical array indices. *)
IndexLess(x, y) == Len(x) < Len(y) \/ (Len(x) = Len(y) /\ StrLess(x, y))

(* The order a sort places x before y in: numeric for array indices, *)
(* code units for strings.                                           *)
Before(numeric, x, y) == IF numeric THEN IndexLess(x, y) ELSE StrLess(x, y)

RECURSIVE insertSorted(_, _, _)
insertSorted(numeric, k, sorted) ==
    IF sorted = <<>> THEN <<k>>
    ELSE IF Before(numeric, k, Head(sorted)) THEN <<k>> \o sorted
    ELSE <<Head(sorted)>> \o insertSorted(numeric, k, Tail(sorted))

RECURSIVE sortKeys(_, _)
sortKeys(numeric, keys) ==
    IF keys = <<>> THEN <<>>
    ELSE insertSorted(numeric, keys[Len(keys)],
                      sortKeys(numeric, SubSeq(keys, 1, Len(keys) - 1)))

(* A variant of sort: the keys are left in property order. *)
sortOmitted(keys) == keys

(* Array.prototype.sort() without a compare function, on an array of strings. *)
sort(keys) == sortKeys(FALSE, keys)

KeysInCreationOrder(obj) == [i \in 1..Len(obj) |-> obj[i].key]

IsPropertyName(k) == ~IsArrayIndex(k)

(* OrdinaryOwnPropertyKeys: array indices ascending, then creation order. *)
OwnKeys(obj) ==
    sortKeys(TRUE, SelectSeq(KeysInCreationOrder(obj), IsArrayIndex))
        \o SelectSeq(KeysInCreationOrder(obj), IsPropertyName)

HasKey(obj, k) == \E i \in 1..Len(obj) : obj[i].key = k

Get(obj, k) == obj[CHOOSE i \in 1..Len(obj) : obj[i].key = k].value

(* obj[k] = v *)
Set(obj, k, v) ==
    IF HasKey(obj, k)
    THEN [i \in 1..Len(obj) |-> IF obj[i].key = k THEN [key |-> k, value |-> v] ELSE obj[i]]
    ELSE Append(obj, [key |-> k, value |-> v])

(* Object.entries(obj) *)
Entries(obj) ==
    LET ks == OwnKeys(obj)
    IN  [i \in 1..Len(ks) |-> [key |-> ks[i], value |-> Get(obj, ks[i])]]

-----------------------------------------------------------------------------
(* createRawRequest *)

K_sign == <<115, 105, 103, 110>>

K_sign_type == <<115, 105, 103, 110, 95, 116, 121, 112, 101>>

K_biz_content == <<98, 105, 122, 95, 99, 111, 110, 116, 101, 110, 116>>

(* A variant of excludedParams: sign_type is not excluded. *)
excludedParamsWithoutSignType == {K_sign, K_biz_content}

excludedParams == {K_sign, K_sign_type, K_biz_content}

(* A variant of the condition: the value is not trimmed before the test. *)
RetainedUntrimmed(key, value) ==
    /\ key \notin excludedParams
    /\ value /= Null
    /\ value /= Undefined
    /\ String(value) /= <<>>

(* The condition of the filter loop. *)
Retained(key, value) ==
    /\ key \notin excludedParams
    /\ value /= Null
    /\ value /= Undefined
    /\ trim(String(value)) /= <<>>

RECURSIVE filterParams(_, _)
(* The filter loop over Object.entries(params), building filteredParams. *)
filterParams(entries, filtered) ==
    IF entries = <<>> THEN filtered
    ELSE LET e == Head(entries)
         IN  filterParams(Tail(entries),
                 IF Retained(e.key, e.value)
                 THEN Set(filtered, e.key, JsString(String(e.value)))
                 ELSE filtered)

RECURSIVE joinTrailing(_, _)
(* A variant of join: the separator follows every part, the last one too. *)
joinTrailing(parts, sep) ==
    IF parts = <<>> THEN <<>>
    ELSE parts[1] \o sep \o joinTrailing(Tail(parts), sep)

RECURSIVE join(_, _)
(* Array.prototype.join *)
join(parts, sep) ==
    IF parts = <<>> THEN <<>>
    ELSE IF Len(parts) = 1 THEN parts[1]
    ELSE parts[1] \o sep \o join(Tail(parts), sep)

(* sortedKeys.map(key => `${key}=${filteredParams[key]}`) *)
mapPairs(sortedKeys, filteredParams) ==
    [i \in 1..Len(sortedKeys) |->
        sortedKeys[i] \o <<EQ>> \o Get(filteredParams, sortedKeys[i]).s]

(* The second half of createRawRequest: sort the keys, map, join. *)
rawOfFiltered(filteredParams) ==
    join(mapPairs(sort(OwnKeys(filteredParams)), filteredParams), <<AMP>>)

createRawRequest(p) == rawOfFiltered(filterParams(Entries(p), <<>>))

(* The query-order mapping of the specification's example, in its written order. *)
QueryOrderExample ==
    << [key |-> <<109, 101, 114, 99, 104, 95, 111, 114, 100, 101, 114, 95, 105, 100>>,
        value |-> JsString(<<49, 55, 48, 48, 48, 48, 48, 48, 48, 48, 48, 48, 49>>)],
       [key |-> <<97, 112, 112, 105, 100>>, value |-> JsString(<<65>>)],
       [key |-> <<109, 101, 114, 99, 104, 95, 99, 111, 100, 101>>, value |-> JsString(<<77>>)],
       [key |-> <<109, 101, 116, 104, 111, 100>>,
        value |-> JsString(<<112, 97, 121, 109, 101, 110, 116, 46, 113, 117, 101, 114,
                             121, 111, 114, 100, 101, 114>>)],
       [key |-> <<110, 111, 110, 99, 101, 95, 115, 116, 114>>,
        value |-> JsString(<<97, 98, 99, 49, 50, 51>>)],
       [key |-> <<116, 105, 109, 101, 115, 116, 97, 109, 112>>,
        value |-> JsString(<<49, 55, 48, 48, 48, 48, 48, 48, 48, 48>>)],
       [key |-> <<118, 101, 114, 115, 105, 111, 110>>, value |-> JsString(<<49, 46, 48>>)] >>

(* appid=A&merch_code=M&merch_order_id=1700000000001&method=payment.queryorder *)
(* &nonce_str=abc123&timestamp=1700000000&version=1.0                          *)
QueryOrderCanonical ==
    <<97, 112, 112, 105, 100, 61, 65, 38, 109, 101, 114, 99, 104, 95, 99, 111, 100, 101,
      61, 77, 38, 109, 101, 114, 99, 104, 95, 111, 114, 100, 101, 114, 95, 105, 100, 61,
      49, 55, 48, 48, 48, 48, 48, 48, 48, 48, 48, 48, 49, 38, 109, 101, 116, 104, 111,
      100, 61, 112, 97, 121, 109, 101, 110, 116, 46, 113, 117, 101, 114, 121, 111, 114,
      100, 101, 114, 38, 110, 111, 110, 99, 101, 95, 115, 116, 114, 61, 97, 98, 99, 49,
      50, 51, 38, 116, 105, 109, 101, 115, 116, 97, 109, 112, 61, 49, 55, 48, 48, 48, 48,
      48, 48, 48, 48, 38, 118, 101, 114, 115, 105, 111, 110, 61, 49, 46, 48>>

-----------------------------------------------------------------------------
(* Private key resolution: loadPrivateKey *)

(* An environment variable that is not set reads as undefined. *)
Unset == "<undefined>"

(* The null loadPrivateKey returns. *)
NullKey == "<null>"

(* Key texts: the empty string, text that is no PEM, and the PKCS#8 PEM of   *)
(* three RSA keys; K512 has a 512-bit modulus, too short for a PSS encoding  *)
(* with SHA-256 and a 32-byte salt (which needs 66 bytes).                   *)
KeyTexts == {"", "not a PEM", "PEM(K512)", "PEM(K1)", "PEM(K2)"}

KeyPath == "./private_key_pkcs8.pem"

NoFile == "<ENOENT>"

(* The truthiness of a string-or-undefined-or-null value. *)
Truthy(v) == v \notin {Unset, NullKey, ""}

(* fs.readFileSync(path, 'utf8') *)
readFileSync(path, file) ==
    IF path = KeyPath /\ file /= NoFile
    THEN [threw |-> FALSE, value |-> file, message |-> ""]
    ELSE [threw |-> TRUE, value |-> NullKey,
          message |-> "ENOENT: no such file or directory"]

(* A variant of loadPrivateKey: the key file is preferred to PRIVATE_KEY. *)
loadPrivateKeyFileFirst(e, file) ==
    IF Truthy(e.PRIVATE_KEY_PATH) /\ ~readFileSync(e.PRIVATE_KEY_PATH, file).threw
    THEN [threw |-> FALSE, value |-> readFileSync(e.PRIVATE_KEY_PATH, file).value,
          fileReads |-> 1, envReads |-> 2,
          log |-> <<[level |-> "debug", message |-> "Private key loaded from file"]>>]
    ELSE [threw |-> FALSE,
          value |-> IF Truthy(e.PRIVATE_KEY) THEN e.PRIVATE_KEY ELSE NullKey,
          fileReads |-> IF Truthy(e.PRIVATE_KEY_PATH) THEN 1 ELSE 0, envReads |-> 2,
          log |-> IF Truthy(e.PRIVATE_KEY_PATH)
                  THEN <<[level |-> "warn", message |-> "Private key not loaded from file"]>>
                  ELSE <<>>]

(* A variant of loadPrivateKey: a failed read of the key file is not caught. *)
loadPrivateKeyUncaught(e, file) ==
    IF Truthy(e.PRIVATE_KEY)
    THEN [threw |-> FALSE, value |-> e.PRIVATE_KEY, fileReads |-> 0, envReads |-> 2,
          log |-> <<>>]
    ELSE IF Truthy(e.PRIVATE_KEY_PATH)
    THEN [threw |-> readFileSync(e.PRIVATE_KEY_PATH, file).threw,
          value |-> readFileSync(e.PRIVATE_KEY_PATH, file).value,
          fileReads |-> 1, envReads |-> 4, log |-> <<>>]
    ELSE [threw |-> FALSE, value |-> NullKey, fileReads |-> 0, envReads |-> 2,
          log |-> <<>>]

(* loadPrivateKey(): what it returns, whether it threw, and what it did:  *)
(* the reads of the key file, the reads of process.env, the lines logged. *)
loadPrivateKey(e, file) ==
    IF Truthy(e.PRIVATE_KEY)
    THEN [threw |-> FALSE, value |-> e.PRIVATE_KEY, fileReads |-> 0, envReads |-> 2,
          log |-> <<[level |-> "debug",
                     message |-> "Private key loaded from environment variable PRIVATE_KEY"]>>]
    ELSE IF Truthy(e.PRIVATE_KEY_PATH)
    THEN LET read == readFileSync(e.PRIVATE_KEY_PATH, file)
         IN  IF read.threw
             THEN [threw |-> FALSE, value |-> NullKey, fileReads |-> 1, envReads |-> 4,
                   log |-> <<[level |-> "warn",
                              message |-> "Private key not loaded from file"]>>]
             ELSE [threw |-> FALSE, value |-> read.value, fileReads |-> 1, envReads |-> 4,
                   log |-> <<[level |-> "debug",
                              message |-> "Private key loaded from file"]>>]
    ELSE [threw |-> FALSE, value |-> NullKey, fileReads |-> 0, envReads |-> 2,
          log |-> <<>>]

-----------------------------------------------------------------------------
(* Signing: generateSignature *)

(* The UTF-8 bytes of one code unit of the Basic Multilingual Plane (the *)
(* strings of the model hold no surrogates).                             *)
utf8(c) ==
    IF c < 128 THEN <<c>>
    ELSE IF c < 2048 THEN <<192 + (c \div 64), 128 + (c % 64)>>
    ELSE <<224 + (c \div 4096), 128 + ((c \div 64) % 64), 128 + (c % 64)>>

RECURSIVE BufferFrom(_)
(* Buffer.from(string, 'utf-8') *)
BufferFrom(s) ==
    IF s = <<>> THEN <<>>
    ELSE IF Len(s) = 1 THEN utf8(s[1])
    ELSE BufferFrom(SubSeq(s, 1, Len(s) \div 2))
            \o BufferFrom(SubSeq(s, Len(s) \div 2 + 1, Len(s)))

(* The RSA key a key text holds, for the texts that are a PEM. *)
IsPem(text) == text \in {"PEM(K512)", "PEM(K1)", "PEM(K2)"}

KeyOf(pem) ==
    CASE pem = "PEM(K512)" -> "K512"
      [] pem = "PEM(K1)" -> "K1"
      [] pem = "PEM(K2)" -> "K2"

ModulusBytes(key) == IF key = "K512" THEN 64 ELSE 256

SHA256_BYTES == 32

(* The salt length generateSignature asks for. *)
SALT_LENGTH == 32

(* The salts the signing primitive may draw. *)
Salts == {"salt1", "salt2"}

(* crypto.sign(algorithm, data, {key, padding, saltLength, mgf1Hash}): the *)
(* signature is the term of its inputs and of the salt drawn; a key text   *)
(* that is no PEM, or a modulus too short for the encoding, is an error.   *)
cryptoSign(algorithm, data, options, salt) ==
    IF ~IsPem(options.key)
    THEN [threw |-> TRUE, value |-> <<>>,
          error |-> [from |-> "crypto.sign", message |-> "error:1E08010C:DECODER routines::unsupported"]]
    ELSE IF ModulusBytes(KeyOf(options.key)) < SHA256_BYTES + options.saltLength + 2
    THEN [threw |-> TRUE, value |-> <<>>,
          error |-> [from |-> "crypto.sign", message |-> "error:0200006E:rsa routines::data too large for key size"]]
    ELSE [threw |-> FALSE,
          value |-> <<[signer |-> KeyOf(options.key), digest |-> algorithm,
                       padding |-> options.padding, mgf1Hash |-> options.mgf1Hash,
                       saltLength |-> options.saltLength, salt |-> salt,
                       data |-> data]>>,
          error |-> [from |-> "", message |-> ""]]

(* buffer.toString('base64'): the text that decodes to the buffer. *)
toBase64(buffer) == [encoding |-> "base64", bytes |-> buffer]

NoValue == [encoding |-> "none", bytes |-> <<>>]

(* A variant of the options: a salt of 20 bytes is asked for. *)
signOptionsSalt20(key) ==
    [key |-> key, padding |-> "RSA_PKCS1_PSS_PADDING", saltLength |-> 20,
     mgf1Hash |-> "sha256"]

(* The options generateSignature hands to crypto.sign. *)
signOptions(key) ==
    [key |-> key, padding |-> "RSA_PKCS1_PSS_PADDING", saltLength |-> SALT_LENGTH,
     mgf1Hash |-> "sha256"]

(* A variant of generateSignature's key check: a missing key is signed with. *)
keyMissingNever(key) == FALSE

(* !key *)
keyMissing(key) == ~Truthy(key)

(* generateSignature(params) in environment e with key file content file,   *)
(* the primitive drawing salt: the value returned or the error thrown (the   *)
(* catch block logs and rethrows), the key it resolved, and what it did.     *)
generateSignature(p, e, file, salt) ==
    LET rawString == createRawRequest(p)
        loaded == loadPrivateKey(e, file)
        key == loaded.value
        signed == cryptoSign("sha256", BufferFrom(rawString), signOptions(key), salt)
        effects == [rawString |-> rawString, key |-> key, loads |-> 1,
                    loadThrew |-> loaded.threw,
                    fileReads |-> loaded.fileReads, envReads |-> loaded.envReads]
    IN  IF loaded.threw
        THEN effects @@
             [kind |-> "throw", value |-> NoValue, signs |-> 0,
              error |-> [from |-> "loadPrivateKey", message |-> "ENOENT"],
              log |-> loaded.log \o
                      <<[level |-> "error", message |-> "Error generating signature"]>>]
        ELSE IF keyMissing(key)
        THEN effects @@
             [kind |-> "throw", value |-> NoValue, signs |-> 0,
              error |-> [from |-> "generateSignature",
                         message |-> "Private key not available for signing"],
              log |-> loaded.log \o
                      <<[level |-> "error", message |-> "Error generating signature"]>>]
        ELSE IF signed.threw
        THEN effects @@
             [kind |-> "throw", value |-> NoValue, signs |-> 1, error |-> signed.error,
              log |-> loaded.log \o
                      <<[level |-> "error", message |-> "Error generating signature"]>>]
        ELSE effects @@
             [kind |-> "return", value |-> toBase64(signed.value), signs |-> 1,
              error |-> [from |-> "", message |-> ""],
              log |-> loaded.log]

-----------------------------------------------------------------------------
(* The gateway, as axios shows it to a handler *)

(* A response body after axios has parsed it: an object (with the fields the *)
(* handlers read), a string (a body that is no JSON document, or a JSON      *)
(* string), or null.                                                         *)
ObjectData(token, prepay_id) ==
    [t |-> "object", token |-> token, prepay_id |-> prepay_id, text |-> ""]

TextData(text) ==
    [t |-> "string", token |-> Undefined, prepay_id |-> Undefined, text |-> text]

NullData == [t |-> "null", token |-> Undefined, prepay_id |-> Undefined, text |-> ""]

(* "Bearer T" *)
BearerToken == <<66, 101, 97, 114, 101, 114, 32, 84>>

(* "P1" *)
PrepayId == <<80, 49>>

(* The text of a JSON document holding an object with prepay_id "P1". *)
PrepayJsonText == "{\"prepay_id\":\"P1\"}"

GatewayData ==
    { ObjectData(JsString(BearerToken), Undefined),
      ObjectData(JsString(<<84>>), Undefined),
      ObjectData(Undefined, Undefined),
      ObjectData(Undefined, JsString(PrepayId)),
      ObjectData(Undefined, JsString(<<>>)),
      TextData(""), TextData("Bad Request"), TextData(PrepayJsonText),
      NullData }

Statuses == {200, 400, 401, 500}

(* What comes back from one axios.post: a response, or none within 30 s. *)
NoAnswer == [kind |-> "timeout", status |-> 0, data |-> NullData]

Answers == [kind : {"response"}, status : Statuses, data : GatewayData] \cup {NoAnswer}

(* The truthiness of a value and of a response body. *)
JsTruthy(value) ==
    \/ (value.t = "string" /\ value.s /= <<>>)
    \/ (value.t = "number" /\ value.n /= 0)

DataTruthy(data) == data.t = "object" \/ (data.t = "string" /\ data.text /= "")

(* axios's default validateStatus. *)
validateStatusDefault(status) == status >= 200 /\ status < 300

(* A variant of the preorder validateStatus: the default is kept. *)
validateStatusPreorderDefault(status) == status >= 200 /\ status < 300

(* validateStatus: status => status < 500, of the preorder call. *)
validateStatusPreorder(status) == status < 500

NoError == [message |-> "", hasResponse |-> FALSE, status |-> 0, data |-> NullData]

(* await axios.post(...): resolved with the response, or rejected with an *)
(* error that carries the response when there was one.                    *)
axiosPost(answer, accepted) ==
    IF answer.kind = "timeout"
    THEN [resolved |-> FALSE, status |-> 0, data |-> NullData,
          error |-> [message |-> "timeout of 30000ms exceeded", hasResponse |-> FALSE,
                     status |-> 0, data |-> NullData]]
    ELSE IF accepted
    THEN [resolved |-> TRUE, status |-> answer.status, data |-> answer.data,
          error |-> NoError]
    ELSE [resolved |-> FALSE, status |-> answer.status, data |-> answer.data,
          error |-> [message |-> "Request failed with status code",
                     hasResponse |-> TRUE, status |-> answer.status,
                     data |-> answer.data]]

(* An exception thrown inside a handler that is no axios error. *)
ThrownError(message) ==
    [message |-> message, hasResponse |-> FALSE, status |-> 0, data |-> NullData]

(* JSON.parse(text), for the texts of the model. *)
JsonParse(text) ==
    IF text = PrepayJsonText
    THEN [threw |-> FALSE, value |-> ObjectData(Undefined, JsString(PrepayId))]
    ELSE [threw |-> TRUE, value |-> NullData]

(* parsePaymentResponse(response) *)
parsePaymentResponse(response) ==
    IF response.t = "string"
    THEN IF JsonParse(response.text).threw THEN NullData
         ELSE JsonParse(response.text).value
    ELSE response

(* token.replace(/^Bearer\s+/, "") *)
stripBearer(token) ==
    LET bearer == <<66, 101, 97, 114, 101, 114>>
    IN  IF /\ Len(token) > Len(bearer)
           /\ SubSeq(token, 1, Len(bearer)) = bearer
           /\ IsWhiteSpace(token[Len(bearer) + 1])
        THEN trimStart(SubSeq(token, Len(bearer) + 1, Len(token)))
        ELSE token

-----------------------------------------------------------------------------
(* Responses to the client *)

NoURL == [base |-> "", query |-> <<>>]

(* res.json(body) and res.status(status).json(body) *)
JsonResponse(status, kind, error, apiResponse, checkoutURL, data) ==
    [status |-> status,
     body |-> [kind |-> kind, error |-> error, apiResponse |-> apiResponse,
               checkoutURL |-> checkoutURL, data |-> data]]

(* The catch block of a handler: error.response?.status || 500, and *)
(* error.response?.data || null.                                    *)
errorResponse(error) ==
    JsonResponse(IF error.hasResponse /\ error.status /= 0 THEN error.status ELSE 500,
                 "error", error.message,
                 IF error.hasResponse /\ DataTruthy(error.data) THEN error.data ELSE NullData,
                 NoURL, NullData)

-----------------------------------------------------------------------------
(* The handlers *)

(* APPID, MERCH_CODE and NOTIFY_URL of the environment, read once at start. *)
APPID == JsString(<<65>>)

MERCH_CODE == JsString(<<77>>)

NOTIFY_URL == JsString(<<104, 116, 116, 112, 115, 58, 47, 47, 109, 46, 101, 120, 97, 109, 112, 108, 101, 47, 110, 111, 116, 105, 102, 121>>)

(* generateNonce() results, getTimestamp() results and :orderId parameters. *)
Nonces == {<<48, 97>>, <<102, 51>>}

Timestamps == {<<49, 55, 48, 48, 48, 48, 48, 48, 48, 48>>}

OrderIds == {<<49, 55, 48, 48, 48, 48, 48, 48, 48, 48, 48, 48, 49>>}

(* signParams of /checkout-url *)
preorderSignParams(orderId, nonce_str, timestamp) ==
    << [key |-> <<97, 112, 112, 105, 100>>, value |-> APPID],
       [key |-> <<98, 117, 115, 105, 110, 101, 115, 115, 95, 116, 121, 112, 101>>, value |-> JsString(<<66, 117, 121, 71, 111, 111, 100, 115>>)],
       [key |-> <<109, 101, 114, 99, 104, 95, 99, 111, 100, 101>>, value |-> MERCH_CODE],
       [key |-> <<109, 101, 114, 99, 104, 95, 111, 114, 100, 101, 114, 95, 105, 100>>, value |-> JsString(orderId)],
       [key |-> <<109, 101, 116, 104, 111, 100>>, value |-> JsString(<<112, 97, 121, 109, 101, 110, 116, 95, 112, 114, 101, 111, 114, 100, 101, 114>>)],
       [key |-> <<110, 111, 110, 99, 101, 95, 115, 116, 114>>, value |-> JsString(nonce_str)],
       [key |-> <<110, 111, 116, 105, 102, 121, 95, 117, 114, 108>>, value |-> NOTIFY_URL],
       [key |-> <<116, 105, 109, 101, 111, 117, 116, 95, 101, 120, 112, 114, 101, 115, 115>>, value |-> JsString(<<49, 50, 48, 109>>)],
       [key |-> <<116, 105, 109, 101, 115, 116, 97, 109, 112>>, value |-> JsString(timestamp)],
       [key |-> <<116, 105, 116, 108, 101>>, value |-> JsString(<<67, 111, 109, 109, 97, 110, 100, 101, 32, 116, 101, 115, 116>>)],
       [key |-> <<116, 111, 116, 97, 108, 95, 97, 109, 111, 117, 110, 116>>, value |-> JsString(<<51, 48, 48, 48>>)],
       [key |-> <<116, 114, 97, 100, 101, 95, 116, 121, 112, 101>>, value |-> JsString(<<67, 104, 101, 99, 107, 111, 117, 116>>)],
       [key |-> <<116, 114, 97, 110, 115, 95, 99, 117, 114, 114, 101, 110, 99, 121>>, value |-> JsString(<<68, 74, 70>>)],
       [key |-> <<118, 101, 114, 115, 105, 111, 110>>, value |-> JsString(<<49, 46, 48>>)] >>

(* checkoutParams of /checkout-url *)
checkoutParams(nonce_str, prepay_id, timestamp) ==
    << [key |-> <<97, 112, 112, 105, 100>>, value |-> APPID],
       [key |-> <<109, 101, 114, 99, 104, 95, 99, 111, 100, 101>>, value |-> MERCH_CODE],
       [key |-> <<110, 111, 110, 99, 101, 95, 115, 116, 114>>, value |-> JsString(nonce_str)],
       [key |-> <<112, 114, 101, 112, 97, 121, 95, 105, 100>>, value |-> prepay_id],
       [key |-> <<116, 105, 109, 101, 115, 116, 97, 109, 112>>, value |-> JsString(timestamp)],
       [key |-> <<118, 101, 114, 115, 105, 111, 110>>, value |-> JsString(<<49, 46, 48>>)],
       [key |-> <<116, 114, 97, 100, 101, 95, 116, 121, 112, 101>>, value |-> JsString(<<67, 104, 101, 99, 107, 111, 117, 116>>)],
       [key |-> <<108, 97, 110, 103, 117, 97, 103, 101>>, value |-> JsString(<<102, 114>>)] >>

(* signParams of /query-order/:orderId *)
queryOrderSignParams(orderId, nonce_str, timestamp) ==
    << [key |-> <<97, 112, 112, 105, 100>>, value |-> APPID],
       [key |-> <<109, 101, 114, 99, 104, 95, 99, 111, 100, 101>>, value |-> MERCH_CODE],
       [key |-> <<109, 101, 114, 99, 104, 95, 111, 114, 100, 101, 114, 95, 105, 100>>, value |-> JsString(orderId)],
       [key |-> <<109, 101, 116, 104, 111, 100>>, value |-> JsString(<<112, 97, 121, 109, 101, 110, 116, 46, 113, 117, 101, 114, 121, 111, 114, 100, 101, 114>>)],
       [key |-> <<110, 111, 110, 99, 101, 95, 115, 116, 114>>, value |-> JsString(nonce_str)],
       [key |-> <<116, 105, 109, 101, 115, 116, 97, 109, 112>>, value |-> JsString(timestamp)],
       [key |-> <<118, 101, 114, 115, 105, 111, 110>>, value |-> JsString(<<49, 46, 48>>)] >>

Routes == {"/auth", "/checkout-url", "/query-order/:orderId"}

IdleRequest ==
    [route |-> "none", pc |-> "idle", trace |-> <<>>, failedAt |-> "none",
     sent |-> <<>>, answers |-> <<>>, signs |-> <<>>, responses |-> <<>>,
     nonce_str |-> <<>>, timestamp |-> <<>>, orderId |-> <<>>]

(* What a handler keeps of a call of generateSignature. *)
SignResult(sig) == [kind |-> sig.kind, value |-> sig.value, rawString |-> sig.rawString]

(* An outbound axios.post: the endpoint, the bearer token and payload.sign. *)
Outbound(to, token, sign) == [to |-> to, token |-> token, sign |-> sign]

(* The handler sends its one response and ends. *)
respond(r, response) ==
    [r EXCEPT !.responses = Append(@, response),
              !.trace = Append(@, "response"),
              !.pc = "done"]

(* An exception reaches the catch block of the handler. *)
catch(r, at, error) == respond([r EXCEPT !.failedAt = at], errorResponse(error))

(* /auth, resumed with the answer to the token request. *)
authAfterToken(r, answer) ==
    LET response == axiosPost(answer, validateStatusDefault(answer.status))
        r1 == [r EXCEPT !.answers = Append(@, answer)]
    IN  IF ~response.resolved THEN catch(r1, "tokenRequest", response.error)
        ELSE respond(r1, JsonResponse(200, "data", "", NullData, NoURL, response.data))

(* A variant of checkoutAfterToken: a failed signature is not thrown, and the *)
(* preorder request is sent without a signature.                            *)
checkoutAfterTokenUnsigned(r, answer, nonce_str, timestamp, salt, e, file) ==
    LET auth == axiosPost(answer, validateStatusDefault(answer.status))
        r1 == [r EXCEPT !.answers = Append(@, answer)]
        sig == generateSignature(
                  preorderSignParams(timestamp \o <<48, 48, 49>>, nonce_str, timestamp),
                  e, file, salt)
    IN  IF ~auth.resolved THEN catch(r1, "tokenRequest", auth.error)
        ELSE IF auth.data.t /= "object" \/ auth.data.token.t /= "string"
        THEN catch(r1, "token", ThrownError("TypeError"))
        ELSE [r1 EXCEPT !.pc = "awaitPreorder",
                        !.nonce_str = nonce_str,
                        !.timestamp = timestamp,
                        !.orderId = timestamp \o <<48, 48, 49>>,
                        !.signs = Append(@, SignResult(sig)),
                        !.trace = @ \o <<"preorderSignature", "preorderRequest">>,
                        !.sent = Append(@, Outbound("preOrder",
                                    stripBearer(auth.data.token.s), sig.value))]

(* /checkout-url, resumed with the answer to the token request: up to the *)
(* sending of the preorder request.                                       *)
checkoutAfterToken(r, answer, nonce_str, timestamp, salt, e, file) ==
    LET auth == axiosPost(answer, validateStatusDefault(answer.status))
        r1 == [r EXCEPT !.answers = Append(@, answer)]
        orderId == timestamp \o <<48, 48, 49>>
        sig == generateSignature(preorderSignParams(orderId, nonce_str, timestamp),
                                 e, file, salt)
        r2 == [r1 EXCEPT !.nonce_str = nonce_str,
                         !.timestamp = timestamp,
                         !.orderId = orderId,
                         !.signs = Append(@, SignResult(sig)),
                         !.trace = Append(@, "preorderSignature")]
    IN  IF ~auth.resolved THEN catch(r1, "tokenRequest", auth.error)
        ELSE IF auth.data.t /= "object" \/ auth.data.token.t /= "string"
        THEN catch(r1, "token", ThrownError("TypeError"))
        ELSE IF sig.kind = "throw"
        THEN catch(r2, "preorderSignature", ThrownError(sig.error.message))
        ELSE [r2 EXCEPT !.pc = "awaitPreorder",
                        !.trace = Append(@, "preorderRequest"),
                        !.sent = Append(@, Outbound("preOrder",
                                    stripBearer(auth.data.token.s), sig.value))]

(* /checkout-url, resumed with the answer to the preorder request. *)
checkoutAfterPreorder(r, answer, salt, e, file) ==
    LET order == axiosPost(answer, validateStatusPreorder(answer.status))
        r1 == [r EXCEPT !.answers = Append(@, answer)]
        r2 == [r1 EXCEPT !.trace = Append(@, "prepayIdExtraction")]
        parsedResponse == parsePaymentResponse(order.data)
        prepay_id == IF parsedResponse.t = "object" THEN parsedResponse.prepay_id
                     ELSE Undefined
        params3 == checkoutParams(r.nonce_str, prepay_id, r.timestamp)
        checkoutSign == generateSignature(params3, e, file, salt)
        r3 == [r2 EXCEPT !.signs = Append(@, SignResult(checkoutSign)),
                         !.trace = Append(@, "checkoutSignature")]
    IN  IF ~order.resolved THEN catch(r1, "preorderRequest", order.error)
        ELSE IF ~DataTruthy(parsedResponse)
        THEN catch(r2, "parse", ThrownError("Failed to parse payment response"))
        ELSE IF ~JsTruthy(prepay_id)
        THEN catch(r2, "prepayId", ThrownError("No prepay_id in response"))
        ELSE IF checkoutSign.kind = "throw"
        THEN catch(r3, "checkoutSignature", ThrownError(checkoutSign.error.message))
        ELSE respond(r3,
                JsonResponse(200, "checkoutURL", "", NullData,
                    [base |-> "https://pgtest.d-money.dj:38443/payment/web/paygate",
                     query |-> <<[params |-> params3, sign |-> checkoutSign.value,
                                  sign_type |-> "SHA256WithRSA"]>>],
                    NullData))

(* /query-order/:orderId, resumed with the answer to the token request. *)
queryOrderAfterToken(r, answer, nonce_str, timestamp, salt, e, file) ==
    LET auth == axiosPost(answer, validateStatusDefault(answer.status))
        r1 == [r EXCEPT !.answers = Append(@, answer)]
        sig == generateSignature(queryOrderSignParams(r.orderId, nonce_str, timestamp),
                                 e, file, salt)
        r2 == [r1 EXCEPT !.nonce_str = nonce_str,
                         !.timestamp = timestamp,
                         !.signs = Append(@, SignResult(sig)),
                         !.trace = Append(@, "querySignature")]
    IN  IF ~auth.resolved THEN catch(r1, "tokenRequest", auth.error)
        ELSE IF auth.data.t /= "object" \/ auth.data.token.t /= "string"
        THEN catch(r1, "token", ThrownError("TypeError"))
        ELSE IF sig.kind = "throw"
        THEN catch(r2, "querySignature", ThrownError(sig.error.message))
        ELSE [r2 EXCEPT !.pc = "awaitQuery",
                        !.trace = Append(@, "queryRequest"),
                        !.sent = Append(@, Outbound("queryOrder",
                                    stripBearer(auth.data.token.s), sig.value))]

(* /query-order/:orderId, resumed with the answer to the query request. *)
queryOrderAfterQuery(r, answer) ==
    LET response == axiosPost(answer, validateStatusDefault(answer.status))
        r1 == [r EXCEPT !.answers = Append(@, answer)]
    IN  IF ~response.resolved THEN catch(r1, "queryRequest", response.error)
        ELSE respond(r1, JsonResponse(200, "data", "", NullData, NoURL, response.data))

-----------------------------------------------------------------------------
(* The process environment, and the states of the parts a specification *)
(* leaves alone.                                                        *)

EnvValues == KeyTexts \cup {Unset}

FileValues == KeyTexts \cup {NoFile}

PathValues == {Unset, KeyPath}

NoCall == [kind |-> "none"]

CanonIdle == params = <<>> /\ raw = <<>> /\ called = FALSE

SignIdle == last = NoCall /\ prev = NoCall /\ fresh = FALSE

HttpIdle == req = IdleRequest

ProcessIdle ==
    /\ env = [PRIVATE_KEY |-> Unset, PRIVATE_KEY_PATH |-> Unset]
    /\ keyFile = NoFile

(* The process starts with any configuration of the key. *)
InitProcess ==
    /\ env \in [PRIVATE_KEY : EnvValues, PRIVATE_KEY_PATH : PathValues]
    /\ keyFile \in FileValues

(* PRIVATE_KEY is set, changed or deleted while the process runs. *)
SetPrivateKey ==
    /\ \E v \in EnvValues \ {env.PRIVATE_KEY} :
          env' = [env EXCEPT !.PRIVATE_KEY = v]
    /\ fresh' = FALSE
    /\ UNCHANGED <<keyFile, last, prev>>

(* PRIVATE_KEY_PATH is set or deleted while the process runs. *)
SetKeyPath ==
    /\ \E v \in PathValues \ {env.PRIVATE_KEY_PATH} :
          env' = [env EXCEPT !.PRIVATE_KEY_PATH = v]
    /\ fresh' = FALSE
    /\ UNCHANGED <<keyFile, last, prev>>

(* The key file is written, replaced or removed while the process runs. *)
WriteKeyFile ==
    /\ \E v \in FileValues \ {keyFile} : keyFile' = v
    /\ fresh' = FALSE
    /\ UNCHANGED <<env, last, prev>>

-----------------------------------------------------------------------------
(* SpecSign: calls of generateSignature in a process whose key sources change *)

(* { title: "é", sign: "x" } *)
AccentParams ==
    << [key |-> <<116, 105, 116, 108, 101>>, value |-> JsString(<<233>>)],
       [key |-> K_sign, value |-> JsString(<<120>>)] >>

(* The mappings signed: an empty one, the query-order example, and one with *)
(* a character outside ASCII and a signature field.                         *)
SignParamChoices == {<<>>, QueryOrderExample, AccentParams}

InitSign == CanonIdle /\ InitProcess /\ SignIdle /\ HttpIdle

(* One call of generateSignature(p); it is synchronous, so nothing of the *)
(* process changes while it runs.                                         *)
Sign ==
    /\ \E p \in SignParamChoices, salt \in Salts :
          last' = generateSignature(p, env, keyFile, salt)
                    @@ [params |-> p, sourceUnchanged |-> fresh]
    /\ prev' = IF last.kind = "none" THEN NoCall
               ELSE [kind |-> "call", key |-> last.key, fileReads |-> last.fileReads]
    /\ fresh' = TRUE
    /\ UNCHANGED <<env, keyFile>>

NextSign ==
    \/ (Sign /\ UNCHANGED <<canonVars, req>>)
    \/ (SetPrivateKey /\ UNCHANGED <<canonVars, req>>)
    \/ (SetKeyPath /\ UNCHANGED <<canonVars, req>>)
    \/ (WriteKeyFile /\ UNCHANGED <<canonVars, req>>)

SpecSign == InitSign /\ [][NextSign]_vars

-----------------------------------------------------------------------------
(* SpecHttp: one request after another through the three handlers, the key *)
(* sources changing while a handler awaits the gateway                     *)

InitHttp == CanonIdle /\ InitProcess /\ SignIdle /\ HttpIdle

(* A request arrives; each handler starts by sending the token request. *)
Receive ==
    /\ req.pc = "idle"
    /\ \E route \in Routes, orderId \in OrderIds :
          req' = [IdleRequest EXCEPT
                    !.route = route,
                    !.pc = "awaitToken",
                    !.orderId = IF route = "/query-order/:orderId" THEN orderId ELSE <<>>,
                    !.trace = <<"tokenRequest">>,
                    !.sent = <<Outbound("token", <<>>, NoValue)>>]
    /\ UNCHANGED <<processVars, signVars>>

(* The token request settles and the handler runs to its next await or to *)
(* its response.                                                          *)
TokenSettles ==
    /\ req.pc = "awaitToken"
    /\ \E answer \in Answers, nonce_str \in Nonces, timestamp \in Timestamps,
          salt \in Salts :
          req' = CASE req.route = "/auth" -> authAfterToken(req, answer)
                   [] req.route = "/checkout-url" ->
                        checkoutAfterToken(req, answer, nonce_str, timestamp, salt,
                                           env, keyFile)
                   [] req.route = "/query-order/:orderId" ->
                        queryOrderAfterToken(req, answer, nonce_str, timestamp, salt,
                                             env, keyFile)
    /\ UNCHANGED <<processVars, signVars>>

(* The preorder request settles and /checkout-url runs to its response. *)
PreorderSettles ==
    /\ req.pc = "awaitPreorder"
    /\ \E answer \in Answers, salt \in Salts :
          req' = checkoutAfterPreorder(req, answer, salt, env, keyFile)
    /\ UNCHANGED <<processVars, signVars>>

(* The query request settles and /query-order runs to its response. *)
QuerySettles ==
    /\ req.pc = "awaitQuery"
    /\ \E answer \in Answers : req' = queryOrderAfterQuery(req, answer)
    /\ UNCHANGED <<processVars, signVars>>

(* The response is on the wire; the process takes the next request. *)
Complete ==
    /\ req.pc = "done"
    /\ req' = IdleRequest
    /\ UNCHANGED <<processVars, signVars>>

NextHttp ==
    \/ (Receive /\ UNCHANGED canonVars)
    \/ (TokenSettles /\ UNCHANGED canonVars)
    \/ (PreorderSettles /\ UNCHANGED canonVars)
    \/ (QuerySettles /\ UNCHANGED canonVars)
    \/ (Complete /\ UNCHANGED canonVars)
    \/ (SetPrivateKey /\ UNCHANGED <<canonVars, req>>)
    \/ (SetKeyPath /\ UNCHANGED <<canonVars, req>>)
    \/ (WriteKeyFile /\ UNCHANGED <<canonVars, req>>)

SpecHttp == InitHttp /\ [][NextHttp]_vars

-----------------------------------------------------------------------------
(* SpecCanon: createRawRequest applied to bounded parameter mappings *)

(* The most properties a mapping built by AddEntry holds. *)
MaxEntries == 2

(* Keys: the three excluded ones, "a", "ab", "B", and the array indices "10", "2". *)
CanonKeys ==
    {K_sign, K_sign_type, K_biz_content, <<97>>, <<97, 98>>, <<66>>, <<49, 48>>, <<50>>}

(* Values: null, undefined, "", "\t ", "0", 0, 12, " x" and "a&b". *)
CanonValues ==
    {Null, Undefined, JsString(<<>>), JsString(<<9, 32>>),
     JsString(<<48>>), JsNumber(0), JsNumber(12), JsString(<<32, 120>>),
     JsString(<<97, AMP, 98>>)}

InitCanon ==
    /\ params \in {<<>>, QueryOrderExample}
    /\ raw = <<>>
    /\ called = FALSE
    /\ ProcessIdle
    /\ SignIdle
    /\ HttpIdle

(* The caller writes one more property of the object literal it will sign. *)
AddEntry ==
    /\ ~called
    /\ Len(params) < MaxEntries
    /\ \E k \in CanonKeys, v \in CanonValues :
          /\ ~HasKey(params, k)
          /\ params' = Set(params, k, v)
    /\ UNCHANGED <<raw, called>>

(* A call of createRawRequest(params): the argument is read, never written. *)
Canonicalize ==
    /\ raw' = createRawRequest(params)
    /\ called' = TRUE
    /\ UNCHANGED params

NextCanon ==
    \/ (AddEntry /\ UNCHANGED <<processVars, signVars, req>>)
    \/ (Canonicalize /\ UNCHANGED <<processVars, signVars, req>>)

SpecCanon == InitCanon /\ [][NextCanon]_vars

-----------------------------------------------------------------------------
(* Vocabulary of the canonicalization claims, stated on the mapping and  *)
(* on the returned text, not on the steps of createRawRequest.           *)

(* x sorts before y: at the first position where they differ x has the *)
(* smaller code unit, or x ends there.                                 *)
KeyAscending(x, y) ==
    \E i \in 1..Len(y) :
        /\ i <= Len(x) + 1
        /\ \A j \in 1..(i - 1) : x[j] = y[j]
        /\ (i = Len(x) + 1 \/ x[i] < y[i])

(* null, undefined, or a string of whitespace only (the empty one included). *)
IsBlank(value) ==
    \/ value.t \in {"null", "undefined"}
    \/ (value.t = "string" /\ \A i \in 1..Len(value.s) : IsWhiteSpace(value.s[i]))

SignatureFields == {K_sign, K_sign_type, K_biz_content}

(* The positions of the entries of p the canonical string is to carry. *)
KeptEntries(p) ==
    {i \in 1..Len(p) : p[i].key \notin SignatureFields /\ ~IsBlank(p[i].value)}

(* The pair of entry e: its key, "=", its value as a string, nothing escaped. *)
PairOf(e) == e.key \o <<EQ>> \o String(e.value)

(* The kept entry of p with exactly r - 1 kept entries before it in key order. *)
KeptAtRank(p, r) ==
    CHOOSE i \in KeptEntries(p) :
        Cardinality({j \in KeptEntries(p) : KeyAscending(p[j].key, p[i].key)}) = r - 1

RECURSIVE PairsUpTo(_, _)
(* The pairs of ranks 1..r, each but the first preceded by "&". *)
PairsUpTo(p, r) ==
    IF r = 0 THEN <<>>
    ELSE IF r = 1 THEN PairOf(p[KeptAtRank(p, 1)])
    ELSE PairsUpTo(p, r - 1) \o <<AMP>> \o PairOf(p[KeptAtRank(p, r)])

ExpectedCanonical(p) == PairsUpTo(p, Cardinality(KeptEntries(p)))

(* The pieces of a canonical string between its "&" ("" has none). *)
PiecesOf(text) ==
    IF text = <<>> THEN <<>>
    ELSE LET seps == {i \in 1..Len(text) : text[i] = AMP}
             n == Cardinality(seps)
             sepAt(r) == CHOOSE i \in seps : Cardinality({j \in seps : j < i}) = r - 1
             startOf(k) == IF k = 1 THEN 1 ELSE sepAt(k - 1) + 1
             endOf(k) == IF k = n + 1 THEN Len(text) ELSE sepAt(k) - 1
         IN  [k \in 1..(n + 1) |-> SubSeq(text, startOf(k), endOf(k))]

Contains(s, c) == \E i \in 1..Len(s) : s[i] = c

(* No key or string value of p holds "&", and no key holds "=": the text *)
(* then parses back into its pairs.                                      *)
Unambiguous(p) ==
    \A i \in 1..Len(p) :
        /\ ~Contains(p[i].key, AMP)
        /\ ~Contains(p[i].key, EQ)
        /\ ~Contains(String(p[i].value), AMP)

StartsWith(s, prefix) ==
    Len(s) >= Len(prefix) /\ SubSeq(s, 1, Len(prefix)) = prefix

(* The pieces of text that are a pair of key k. *)
PiecesOfKey(text, k) ==
    {i \in 1..Len(PiecesOf(text)) : StartsWith(PiecesOf(text)[i], k \o <<EQ>>)}

RECURSIVE Orderings(_)
(* Every order in which the entries of p can have been written. *)
Orderings(p) ==
    IF p = <<>> THEN {<<>>}
    ELSE UNION {
            {<<p[i]>> \o rest :
                rest \in Orderings(SubSeq(p, 1, i - 1) \o SubSeq(p, i + 1, Len(p)))}
            : i \in 1..Len(p)}

-----------------------------------------------------------------------------
(* C1: createRawRequest returns exactly the key=value pairs of the retained   *)
(* entries (key not excluded, value not blank), values as strings unescaped   *)
(* and untrimmed, in ascending key order, joined by "&" with none leading or  *)
(* trailing; no retained entry gives ""; the query-order example of the       *)
(* specification gives its written canonical string.                          *)
C1_CanonicalString ==
    called =>
        /\ raw = ExpectedCanonical(params)
        /\ (KeptEntries(params) = {} => raw = <<>>)
        /\ (Unambiguous(params) /\ KeptEntries(params) /= {} =>
              /\ Len(PiecesOf(raw)) = Cardinality(KeptEntries(params))
              /\ raw[1] /= AMP
              /\ raw[Len(raw)] /= AMP
              /\ \A i \in 1..(Len(PiecesOf(raw)) - 1) :
                    KeyAscending(PiecesOf(raw)[i], PiecesOf(raw)[i + 1]))
        /\ (params = QueryOrderExample => raw = QueryOrderCanonical)

(* C1 witness: a call on two retained entries written in descending key order, *)
(* one of them with a value that starts with a space.                          *)
C1_Witness ==
    /\ called
    /\ Len(params) = 2
    /\ KeptEntries(params) = {1, 2}
    /\ KeyAscending(params[2].key, params[1].key)
    /\ \E i \in 1..2 : params[i].value = JsString(<<32, 120>>)

(* C1 witness of the example is reached too: the call on the example mapping. *)
C1_ExampleReached == called /\ params = QueryOrderExample

(* C2: the canonical string carries no pair of key sign, sign_type or         *)
(* biz_content, whatever their values; the signed string is the same whether  *)
(* or not sign and sign_type are already present in the mapping.              *)
C2_ExcludedKeys ==
    called =>
        /\ \A k \in SignatureFields :
              createRawRequest(Set(params, k, JsString(<<97, AMP, 98>>))) = raw
        /\ createRawRequest(Set(Set(params, K_sign, JsString(<<32, 120>>)),
                                 K_sign_type, JsString(<<DIGIT0>>))) = raw
        /\ raw = createRawRequest(
                    SelectSeq(params, LAMBDA e : e.key \notin SignatureFields))
        /\ (Unambiguous(params) =>
              \A k \in SignatureFields : PiecesOfKey(raw, k) = {})

(* C2 witness: a call on a mapping that holds an excluded key with a value *)
(* that is not blank, next to a retained entry.                            *)
C2_Witness ==
    /\ called
    /\ KeptEntries(params) /= {}
    /\ \E i \in 1..Len(params) :
          params[i].key \in SignatureFields /\ ~IsBlank(params[i].value)

(* C3: an entry whose value is null, undefined, "" or whitespace only gives *)
(* no pair; every other entry of a key not excluded (0 and "0" included)    *)
(* gives exactly one pair.                                                  *)
C3_BlankValues ==
    called =>
        /\ Len(PiecesOf(raw)) >= Cardinality(KeptEntries(params))
        /\ (Unambiguous(params) =>
              \A i \in 1..Len(params) :
                  LET e == params[i]
                      found == PiecesOfKey(raw, e.key)
                  IN  /\ (IsBlank(e.value) => found = {})
                      /\ (~IsBlank(e.value) /\ e.key \notin SignatureFields =>
                            /\ Cardinality(found) = 1
                            /\ \A j \in found : PiecesOf(raw)[j] = PairOf(e))
                      /\ (e.value \in {JsNumber(0), JsString(<<DIGIT0>>)}
                            /\ e.key \notin SignatureFields =>
                            \E j \in found :
                                PiecesOf(raw)[j] = e.key \o <<EQ, DIGIT0>>))

(* C3 witness: a call on a whitespace-only value next to a zero. *)
C3_Witness ==
    /\ called
    /\ \E i, j \in 1..Len(params) :
          /\ params[i].value = JsString(<<9, 32>>)
          /\ params[i].key \notin SignatureFields
          /\ params[j].value = JsNumber(0)
          /\ params[j].key \notin SignatureFields

(* C4: the returned string does not depend on the order the entries were *)
(* written in, and a repeated call returns it again.                     *)
C4_OrderIndependent ==
    called =>
        /\ \A q \in Orderings(params) : createRawRequest(q) = raw
        /\ createRawRequest(params) = raw

(* C4 witness: a call on two retained entries whose written order is not *)
(* their key order.                                                      *)
C4_Witness ==
    /\ called
    /\ Len(params) = 2
    /\ KeptEntries(params) = {1, 2}
    /\ KeyAscending(params[2].key, params[1].key)
    /\ ~IsArrayIndex(params[1].key)

-----------------------------------------------------------------------------
(* Vocabulary of the signing claims *)

RsaKeys == {"K512", "K1", "K2"}

(* RSASSA-PSS verification of a base64 signature text over the UTF-8 bytes of *)
(* message: the signature was made by the private key of publicKey, over the  *)
(* same bytes, with SHA-256, MGF1-SHA256 and a 32-byte salt.                  *)
VerifiesPSS(publicKey, message, signatureText) ==
    /\ signatureText.encoding = "base64"
    /\ Len(signatureText.bytes) = 1
    /\ LET sig == signatureText.bytes[1]
       IN  /\ sig.signer = publicKey
           /\ sig.padding = "RSA_PKCS1_PSS_PADDING"
           /\ sig.digest = "sha256"
           /\ sig.mgf1Hash = "sha256"
           /\ sig.saltLength = 32
           /\ sig.data = BufferFrom(message)

(* Strings that differ from the signed one: the other canonical strings of *)
(* the model, and the signed one with a pair appended or its end cut off.  *)
TamperedStrings(signedString) ==
    ({ExpectedCanonical(q) : q \in SignParamChoices}
        \cup {signedString \o <<AMP, 97, EQ, 49>>}
        \cup {SubSeq(signedString, 1, Len(signedString) - 1)})
    \ {signedString}

(* The key text the configuration resolves to: PRIVATE_KEY when it is set  *)
(* (and not empty), else the content of the file at PRIVATE_KEY_PATH when  *)
(* the path is set and the file can be read, else nothing.                 *)
ResolvedKeyText(e, file) ==
    IF e.PRIVATE_KEY \notin {Unset, ""} THEN e.PRIVATE_KEY
    ELSE IF e.PRIVATE_KEY_PATH = KeyPath /\ file /= NoFile THEN file
    ELSE NullKey

IsKeyUnavailable(error) ==
    error.from = "generateSignature"
    /\ error.message = "Private key not available for signing"

IsSigningFailure(error) == error.from = "crypto.sign"

Logged(call, level) == \E i \in 1..Len(call.log) : call.log[i].level = level

(* C5: a returned signature is the base64 text of an RSASSA-PSS signature    *)
(* (SHA-256, MGF1-SHA256, salt length 32) over the UTF-8 bytes of the         *)
(* canonical string of the parameters: it verifies against the public key of  *)
(* the private key used, and fails against another public key or against a    *)
(* canonical string that differs from the signed one.                         *)
C5_SignatureVerifies ==
    last.kind = "return" =>
        /\ IsPem(last.key)
        /\ VerifiesPSS(KeyOf(last.key), ExpectedCanonical(last.params), last.value)
        /\ \A k \in RsaKeys \ {KeyOf(last.key)} :
              ~VerifiesPSS(k, ExpectedCanonical(last.params), last.value)
        /\ \A m \in TamperedStrings(ExpectedCanonical(last.params)) :
              ~VerifiesPSS(KeyOf(last.key), m, last.value)
        /\ (last.params = AccentParams =>
              last.value.bytes[1].data
                = <<116, 105, 116, 108, 101, 61, 195, 169>>)

(* C5 witness: a signature was returned for the mapping with the accented *)
(* title, under key K2.                                                   *)
C5_Witness ==
    last.kind = "return" /\ last.params = AccentParams /\ last.key = "PEM(K2)"

(* C6: with no private key resolvable the call fails with the key-unavailable *)
(* error, with a key the primitive rejects it fails with the primitive's      *)
(* error; either way the error reaches the caller, no signature is returned   *)
(* and nothing is tried twice.                                                *)
C6_SigningErrors ==
    (fresh /\ last.kind /= "none") =>
        LET text == ResolvedKeyText(env, keyFile)
        IN  /\ (text \in {NullKey, ""} =>
                  /\ last.kind = "throw"
                  /\ IsKeyUnavailable(last.error)
                  /\ last.signs = 0)
            /\ (text \in {"not a PEM", "PEM(K512)"} =>
                  /\ last.kind = "throw"
                  /\ IsSigningFailure(last.error)
                  /\ last.signs = 1)
            /\ (last.kind = "throw" =>
                  /\ last.value = NoValue
                  /\ last.loads = 1
                  /\ Logged(last, "error")
                  /\ text \notin {"PEM(K1)", "PEM(K2)"})

(* C6 witness: a call failed on a key file that holds no PEM. *)
C6_Witness ==
    /\ fresh
    /\ last.kind = "throw"
    /\ env.PRIVATE_KEY = Unset
    /\ keyFile = "not a PEM"
    /\ IsSigningFailure(last.error)

(* C6 second case reached: a call failed for want of any key. *)
C6_NoKeyReached ==
    fresh /\ last.kind = "throw" /\ IsKeyUnavailable(last.error)

(* C7: loadPrivateKey returns PRIVATE_KEY when it is set, without reading the *)
(* key file; else the file's content when PRIVATE_KEY_PATH is set, a failed   *)
(* read being logged and giving null; else null. It never throws.             *)
C7_KeyResolutionOrder ==
    (fresh /\ last.kind /= "none") =>
        /\ ~last.loadThrew
        /\ (env.PRIVATE_KEY \notin {Unset, ""} =>
              last.key = env.PRIVATE_KEY /\ last.fileReads = 0)
        /\ (env.PRIVATE_KEY \in {Unset, ""} /\ env.PRIVATE_KEY_PATH = KeyPath =>
              /\ last.fileReads = 1
              /\ (keyFile /= NoFile => last.key = keyFile)
              /\ (keyFile = NoFile => last.key = NullKey /\ Logged(last, "warn")))
        /\ (env.PRIVATE_KEY \in {Unset, ""} /\ env.PRIVATE_KEY_PATH = Unset =>
              last.key = NullKey /\ last.fileReads = 0)

(* C7 witness: PRIVATE_KEY and the key file hold different keys, and the call *)
(* took the one of PRIVATE_KEY.                                               *)
C7_Witness ==
    /\ fresh
    /\ last.kind = "return"
    /\ env.PRIVATE_KEY = "PEM(K1)"
    /\ env.PRIVATE_KEY_PATH = KeyPath
    /\ keyFile = "PEM(K2)"

(* C7 second case reached: the configured key file could not be read. *)
C7_FailedReadReached ==
    /\ fresh
    /\ last.kind = "throw"
    /\ env.PRIVATE_KEY = Unset
    /\ env.PRIVATE_KEY_PATH = KeyPath
    /\ keyFile = NoFile

-----------------------------------------------------------------------------
(* Vocabulary of the handler claims, stated on what went over the wire: the *)
(* answers of the gateway, the requests sent to it, the response sent back. *)

StepOrder ==
    <<"tokenRequest", "preorderSignature", "preorderRequest", "prepayIdExtraction",
      "checkoutSignature", "response">>

(* A gateway call failed: no answer in time, or a status axios rejects. *)
CallFailed(answer, leastRejected) ==
    \/ answer.kind = "timeout"
    \/ answer.status >= leastRejected
    \/ (leastRejected = 300 /\ answer.status < 200)

(* The prepay_id a preorder answer carries: that of its object, or of the *)
(* object its JSON text holds; undefined otherwise.                       *)
PrepayIdIn(answer) ==
    IF answer.data.t = "object" THEN answer.data.prepay_id
    ELSE IF answer.data.t = "string" /\ answer.data.text = PrepayJsonText
    THEN JsString(PrepayId)
    ELSE Undefined

(* The body of an answer parses to a value (it is neither null, nor empty, *)
(* nor text that is no JSON).                                              *)
BodyParses(answer) ==
    answer.data.t = "object"
    \/ (answer.data.t = "string" /\ answer.data.text = PrepayJsonText)

(* The body as an error response reports it: an empty body reads as null. *)
ReportedBody(answer) ==
    IF answer.data.t = "string" /\ answer.data.text = "" THEN NullData ELSE answer.data

HasToken(answer) ==
    answer.data.t = "object" /\ answer.data.token.t = "string"

(* C9: /checkout-url runs token request, preorder signature, preorder request, *)
(* prepay_id extraction, checkout signature, response in that order and stops  *)
(* at the first step that fails: a failed token request leaves no signature    *)
(* and no preorder request, a failed preorder signature leaves the token       *)
(* request sent and no preorder request; checkoutURL is answered only after a  *)
(* non-empty prepay_id and two successful signatures; every request gets       *)
(* exactly one response, checkoutURL or an error, never both.                  *)
C9_CheckoutStepOrder ==
    req.route = "/checkout-url" =>
        LET n == Len(req.trace)
            tokenFailed == req.answers /= <<>> /\ CallFailed(req.answers[1], 300)
        IN  /\ n \in 1..6
            /\ \A i \in 1..n :
                  req.trace[i] = StepOrder[i] \/ (i = n /\ req.trace[i] = "response")
            /\ Len(req.responses) <= 1
            /\ (req.pc = "done" <=> Len(req.responses) = 1)
            /\ (req.pc = "done" <=> req.trace[n] = "response")
            /\ req.sent[1].to = "token"
            /\ (tokenFailed => req.signs = <<>> /\ Len(req.sent) = 1 /\ req.pc = "done")
            /\ (req.signs /= <<>> /\ req.signs[1].kind = "throw" =>
                  /\ Len(req.sent) = 1
                  /\ Len(req.signs) = 1
                  /\ req.pc = "done"
                  /\ req.responses[1].body.kind = "error")
            /\ (Len(req.sent) >= 2 =>
                  /\ Len(req.sent) = 2
                  /\ req.sent[2].to = "preOrder"
                  /\ req.signs[1].kind = "return"
                  /\ req.sent[2].sign = req.signs[1].value)
            /\ (Len(req.signs) = 2 =>
                  /\ Len(req.answers) = 2
                  /\ JsTruthy(PrepayIdIn(req.answers[2])))
            /\ (req.pc = "done" =>
                  LET body == req.responses[1].body
                  IN  /\ body.kind \in {"checkoutURL", "error"}
                      /\ (body.kind = "error" =>
                            body.checkoutURL = NoURL /\ body.error /= "")
                      /\ (body.kind = "checkoutURL" =>
                            /\ body.error = ""
                            /\ n = 6
                            /\ Len(req.answers) = 2
                            /\ ~CallFailed(req.answers[2], 500)
                            /\ JsTruthy(PrepayIdIn(req.answers[2]))
                            /\ Len(req.signs) = 2
                            /\ req.signs[1].kind = "return"
                            /\ req.signs[2].kind = "return"
                            /\ body.checkoutURL.query[1].sign = req.signs[2].value
                            /\ Get(body.checkoutURL.query[1].params,
                                   <<112, 114, 101, 112, 97, 121, 95, 105, 100>>)
                                 = PrepayIdIn(req.answers[2])))

(* C9 witness: /checkout-url answered a checkout URL. *)
C9_Witness ==
    /\ req.route = "/checkout-url"
    /\ req.pc = "done"
    /\ req.responses[1].body.kind = "checkoutURL"

(* C9 second case reached: the preorder signature failed for want of a key. *)
C9_SignatureFailureReached ==
    /\ req.route = "/checkout-url"
    /\ req.pc = "done"
    /\ req.signs /= <<>>
    /\ req.signs[1].kind = "throw"

(* An error response was sent; the gateway answer it follows. *)
ErrorSent ==
    req.pc = "done" /\ req.responses[1].body.kind = "error"

LastAnswer ==
    req.answers[Len(req.answers)]

AtToken ==
    Len(req.answers) = 1

AtPreorder ==
    req.route = "/checkout-url" /\ ~AtToken

(* The status of the failed gateway call when it was answered, 500 when it  *)
(* was not answered in time, when a signature failed or when the token is   *)
(* missing; a 4xx answer of the token call or of the query call goes back   *)
(* with its status and body.                                                *)
ErrorStatusFollowsGateway ==
    ErrorSent =>
        LET resp == req.responses[1]
            answer == LastAnswer
            leastRejected == IF AtPreorder THEN 500 ELSE 300
            signFailed == req.signs /= <<>> /\ req.signs[Len(req.signs)].kind = "throw"
        IN  /\ (answer.kind = "response" /\ CallFailed(answer, leastRejected) =>
                  /\ resp.status = answer.status
                  /\ resp.body.apiResponse = ReportedBody(answer)
                  /\ resp.body.error = "Request failed with status code")
            /\ (answer.kind = "timeout" =>
                  resp.status = 500 /\ resp.body.apiResponse = NullData)
            /\ (signFailed =>
                  resp.status = 500 /\ resp.body.apiResponse = NullData)
            /\ (AtToken /\ req.route /= "/auth" /\ ~CallFailed(answer, 300)
                    /\ ~HasToken(answer) =>
                  resp.status = 500 /\ resp.body.apiResponse = NullData)
            /\ (answer.kind = "response" /\ answer.status \in 400..499
                    /\ (AtToken \/ req.route = "/query-order/:orderId") =>
                  /\ resp.status = answer.status
                  /\ resp.body.apiResponse = ReportedBody(answer))

(* C10 as stated: an error response carries the status of the failed gateway *)
(* call when that call was answered, and 500 otherwise; every 4xx preorder   *)
(* answer without prepay_id is reported as 500 with error "No prepay_id in   *)
(* response" and apiResponse null.                                           *)
C10_AsStated ==
    /\ ErrorStatusFollowsGateway
    /\ (ErrorSent /\ AtPreorder /\ LastAnswer.kind = "response"
            /\ LastAnswer.status \in 400..499
            /\ ~JsTruthy(PrepayIdIn(LastAnswer)) =>
          /\ req.responses[1].status = 500
          /\ req.responses[1].body.error = "No prepay_id in response"
          /\ req.responses[1].body.apiResponse = NullData)

(* C10: an error response carries the status of the failed gateway call when  *)
(* that call was answered, and 500 otherwise (no answer in time, a failed     *)
(* signature, a missing token). The preorder call takes every status below    *)
(* 500 as an answer: one without prepay_id is reported as 500 with            *)
(* apiResponse null, with error "No prepay_id in response" when its body is   *)
(* an object or JSON text, and with error "Failed to parse payment response"  *)
(* when its body is null, empty or text that is no JSON; a 4xx answer to the  *)
(* token call or the query call is reported with that status and the          *)
(* gateway's body.                                                            *)
C10_ErrorStatus ==
    /\ ErrorStatusFollowsGateway
    /\ (ErrorSent /\ AtPreorder /\ ~CallFailed(LastAnswer, 500)
            /\ ~JsTruthy(PrepayIdIn(LastAnswer)) =>
          /\ req.responses[1].status = 500
          /\ req.responses[1].body.apiResponse = NullData
          /\ req.responses[1].body.error =
                IF BodyParses(LastAnswer) THEN "No prepay_id in response"
                ELSE "Failed to parse payment response")

(* C10 witness: the preorder call was answered 400 with an object that holds *)
(* no prepay_id, and the client was answered 500.                            *)
C10_Witness ==
    /\ req.route = "/checkout-url"
    /\ req.pc = "done"
    /\ Len(req.answers) = 2
    /\ req.answers[2].kind = "response"
    /\ req.answers[2].status = 400
    /\ req.answers[2].data = ObjectData(Undefined, Undefined)
    /\ req.responses[1].status = 500

(* C10 second case reached: the query call was answered 401 with a body, and *)
(* the client was answered 401 with it.                                      *)
C10_QueryPassThroughReached ==
    /\ req.route = "/query-order/:orderId"
    /\ req.pc = "done"
    /\ Len(req.answers) = 2
    /\ req.answers[2].status = 401
    /\ req.answers[2].data = TextData("Bad Request")
    /\ req.responses[1].status = 401
    /\ req.responses[1].body.apiResponse = TextData("Bad Request")

(* C10 third case reached: the preorder call was answered 400 with text that  *)
(* is no JSON, and the client was answered 500 for a response that does not   *)
(* parse.                                                                     *)
C10_UnparsableReached ==
    /\ ErrorSent
    /\ AtPreorder
    /\ LastAnswer.kind = "response"
    /\ LastAnswer.status = 400
    /\ LastAnswer.data = TextData("Bad Request")
    /\ req.responses[1].status = 500
    /\ req.responses[1].body.error = "Failed to parse payment response"

=============================================================================
